---- MODULE Spec2Model ----
(***************************************************************************)
(* The POST /upload handler of src/app.js as a state machine.              *)
(*                                                                         *)
(* A request is staged by multer, then the async handler runs; it is cut   *)
(* at its await points and at its calls into fs, so every action is one    *)
(* stretch of the handler between two such points.  Strings that the code  *)
(* builds by concatenation or rewrites with replace() are sequences of     *)
(* tokens, the empty sequence being the empty string.  A links entry and a *)
(* response body are records whose DOMAIN is the set of keys the JSON      *)
(* object has, so "no error field" is  "error" \notin DOMAIN e.            *)
(***************************************************************************)
EXTENDS Integers, Sequences, FiniteSets, TLC

\* Largest number of file parts in one multipart request.
MaxFiles == 2

\* The two requests that may be in progress at the same time.
Reqs == {"A", "B"}

\* Client-supplied name (f.originalname) of part i of a batch: neighbours
\* differ and a third part repeats the name of the first.  The handler never
\* branches on a name.
OriginalName(i) == IF i % 2 = 1 THEN "a.txt" ELSE "b.txt"

\* Values of req.body.provider: the four the handler knows, two it does not,
\* and the missing field (undefined).
NoProvider == "<undefined>"
Providers == {"local", "dropbox", "terabox", "medianz", "LOCAL", NoProvider}

\* JavaScript undefined where a url (a token sequence) or a message is expected.
UndefinedUrl == <<"<undefined>">>
NoMessage == "<undefined>"

\* What an awaited SDK call rejects with, by what the catch block reads from
\* it: an Error (e.message a string), an object without a
\* message such as {status: 409} (e.message undefined), or null/undefined
\* (reading e.message throws).
NullRejection == "<null>"
ErrorMessages == {"ECONNRESET"}
Rejections == ErrorMessages \cup {NoMessage, NullRejection}

\* e.message of fs.readFileSync on a missing file and of url.replace on undefined.
EnoentMessage == "ENOENT: no such file or directory"
TypeErrorMessage == "Cannot read properties of undefined"

\* sharedLinkRes.result.url as the sharing call resolves with it: a link, the
\* empty string, a string that line 95 reduces to the empty string, and no
\* url at all.
DropboxUrls ==
    { <<"https://", "www.dropbox.com", "/s/k/f", "?dl=0">>,
      <<>>,
      <<"?dl=0">>,
      UndefinedUrl }

\* What teraboxUploader.uploadFile resolves to.
TeraboxResults ==
    { [success |-> TRUE,  fileDetails |-> TRUE,  downloadLink |-> <<"https://terabox/d/1">>, message |-> NoMessage],
      [success |-> TRUE,  fileDetails |-> TRUE,  downloadLink |-> <<>>,                      message |-> "uploaded"],
      [success |-> TRUE,  fileDetails |-> FALSE, downloadLink |-> UndefinedUrl,              message |-> NoMessage],
      [success |-> FALSE, fileDetails |-> FALSE, downloadLink |-> UndefinedUrl,              message |-> "quota exceeded"],
      [success |-> FALSE, fileDetails |-> TRUE,  downloadLink |-> <<"https://terabox/d/1">>, message |-> ""] }

VARIABLES
    dbx,              \* TRUE iff the Dropbox client was constructed (non-null)
    teraboxUploader,  \* TRUE iff the TeraBox uploader was constructed (non-null)
    express5,         \* TRUE iff the installed router forwards a rejected handler to the error handler
    disk,             \* stored names of the files present under uploads/
    provider,         \* per request: req.body.provider
    files,            \* per request: req.files
    pc,               \* per request: where its handler stands
    idx,              \* per request: index of the file the for-loop is on
    links,            \* per request: the local links array
    resp,             \* per request: the responses written so far
    inflight,         \* per request: files whose adapter promise is pending
    attempts,         \* per request: how often each file's try block was entered
    opened,           \* per request: stored names read or handed to an adapter
    unlinked,         \* per request: stored names it removed with fs.unlinkSync
    outcomes          \* per request: how the try block of each file ended, in order

vars == <<dbx, teraboxUploader, express5, disk, provider, files, pc, idx, links,
          resp, inflight, attempts, opened, unlinked, outcomes>>

config == <<dbx, teraboxUploader, express5>>

----------------------------------------------------------------------------
\* Pure parts of the handler.

\* multer's server-assigned name (f.filename) of part i of request r: random
\* hex in the code, here a name that is distinct for distinct parts.
StoredName(r, i) == ToString(<<r, i>>)

\* f.path: the staged file is addressed by its stored name.
StagedFiles(r) == { files[r][i].filename : i \in 1..Len(files[r]) }

IndexOf(s, t) ==
    IF \E i \in 1..Len(s) : s[i] = t
    THEN CHOOSE i \in 1..Len(s) : s[i] = t /\ \A j \in 1..(i-1) : s[j] # t
    ELSE 0

\* String.prototype.replace with a string pattern: the first occurrence only.
Replace(s, t, by) ==
    LET i == IndexOf(s, t)
    IN IF i = 0 THEN s ELSE SubSeq(s, 1, i-1) \o by \o SubSeq(s, i+1, Len(s))

\* Line 95.
DirectUrl(url) ==
    Replace(Replace(url, "www.dropbox.com", <<"dl.dropboxusercontent.com">>), "?dl=0", <<>>)

\* JavaScript truthiness of a url-valued and of a message-valued expression.
TruthyUrl(u) == u # UndefinedUrl /\ u # <<>>
TruthyMessage(m) == m # NoMessage /\ m # ""

ErrorEntry(name, message) == [name |-> name, url |-> <<>>, error |-> message]

\* res.json: JSON.stringify leaves out the keys of an entry whose value is undefined.
JsonEntry(e) ==
    LET kept == { k \in DOMAIN e :
                    ~ \/ (k = "url" /\ e[k] = UndefinedUrl)
                      \/ (k = "error" /\ e[k] = NoMessage) }
    IN [k \in kept |-> e[k]]
JsonLinks(l) == [i \in 1..Len(l) |-> JsonEntry(l[i])]

\* LocalEntry with the url built from the client's name of the file.
LocalEntryByOriginalName(f) == [name |-> f.originalname, url |-> <<"/uploads/", f.originalname>>]

\* Lines 82-85.
LocalEntry(f) == [name |-> f.originalname, url |-> <<"/uploads/", f.filename>>]

\* Lines 94-96, and the TypeError of url.replace on undefined caught at 97-98.
DropboxEntry(name, url) ==
    IF url = UndefinedUrl
    THEN ErrorEntry(name, TypeErrorMessage)
    ELSE [name |-> name, url |-> DirectUrl(url)]

\* Lines 108-112.
TeraboxEntry(name, result) ==
    IF result.success /\ result.fileDetails /\ TruthyUrl(result.downloadLink)
    THEN [name |-> name, url |-> result.downloadLink]
    ELSE ErrorEntry(name, IF TruthyMessage(result.message) THEN result.message ELSE "Upload failed")

\* Lines 63-65.
uploadToMediaNz == [success |-> FALSE, url |-> UndefinedUrl, message |-> "media.nz upload not implemented yet"]

\* Lines 123-127.
MediaNzEntry(name, result) ==
    IF result.success
    THEN [name |-> name, url |-> result.url]
    ELSE ErrorEntry(name, IF TruthyMessage(result.message) THEN result.message ELSE "Upload failed")

\* Branch with the provider compared without regard to case.
BranchIgnoringCase(p) ==
    IF p \in {"local", "LOCAL"} THEN "local"
    ELSE IF p = "dropbox" THEN "dropbox"
    ELSE IF p = "terabox" THEN "terabox"
    ELSE IF p = "medianz" THEN "medianz"
    ELSE "unknown"

\* Which branch of the if/else-if chain of lines 81-136 a provider value takes.
Branch(p) ==
    IF p = "local" THEN "local"
    ELSE IF p = "dropbox" THEN "dropbox"
    ELSE IF p = "terabox" THEN "terabox"
    ELSE IF p = "medianz" THEN "medianz"
    ELSE "unknown"

\* Configured without the guards: every backend counts as present.
ConfiguredAlways(p) == p = p

\* The guards of lines 88 and 104.
Configured(p) ==
    /\ (p = "dropbox" => dbx)
    /\ (p = "terabox" => teraboxUploader)

NotConfiguredMessage(p) ==
    IF p = "dropbox" THEN "Dropbox not configured." ELSE "TeraBox not configured."

\* Lines 102, 118, 133.
DoneMessage(p) ==
    IF p = "dropbox" THEN "Uploaded to Dropbox."
    ELSE IF p = "terabox" THEN "Uploaded to TeraBox."
    ELSE "Uploaded to media.nz."

----------------------------------------------------------------------------
\* State after the module has loaded: configuration fixed, no request yet.

TypeInit(present) ==
    /\ dbx \in BOOLEAN
    /\ teraboxUploader \in BOOLEAN
    /\ express5 \in BOOLEAN
    /\ disk = {}
    /\ provider = [r \in Reqs |-> NoProvider]
    /\ files = [r \in Reqs |-> <<>>]
    /\ pc = [r \in Reqs |-> IF r \in present THEN "new" ELSE "absent"]
    /\ idx = [r \in Reqs |-> 1]
    /\ links = [r \in Reqs |-> <<>>]
    /\ resp = [r \in Reqs |-> <<>>]
    /\ inflight = [r \in Reqs |-> {}]
    /\ attempts = [r \in Reqs |-> <<>>]
    /\ opened = [r \in Reqs |-> {}]
    /\ unlinked = [r \in Reqs |-> {}]
    /\ outcomes = [r \in Reqs |-> <<>>]

Init == TypeInit({"A"})

InitConcurrent == TypeInit(Reqs)

----------------------------------------------------------------------------
\* Helpers for the actions.

File(r) == files[r][idx[r]]

Send(r, body) == resp' = [resp EXCEPT ![r] = Append(@, body)]

\* How a try block ended: the adapter resolved (with success flag, url and
\* message of its result) or something in the block threw (with e.message).
Resolved(success, url, message) ==
    [kind |-> "resolved", success |-> success, url |-> url, message |-> message]
Threw(message) ==
    [kind |-> "threw", success |-> FALSE, url |-> UndefinedUrl, message |-> message]

Push(r, entry, outcome) ==
    /\ links' = [links EXCEPT ![r] = Append(@, entry)]
    /\ outcomes' = [outcomes EXCEPT ![r] = Append(@, outcome)]

\* The promise of file idx[r] has settled and its entry is pushed; next is line 100/116/131.
Settle(r, entry, outcome) ==
    /\ Push(r, entry, outcome)
    /\ inflight' = [inflight EXCEPT ![r] = @ \ {idx[r]}]
    /\ pc' = [pc EXCEPT ![r] = "unlink"]
    /\ UNCHANGED <<config, disk, provider, files, idx, resp, attempts, opened, unlinked>>

\* The async handler's promise rejects: the handler writes nothing more.  A
\* router that forwards the rejection answers with the default error handler's
\* 500; one that does not leaves the request without an answer.
HandlerRejects(r) ==
    IF express5
    THEN /\ Send(r, [status |-> 500])
         /\ pc' = [pc EXCEPT ![r] = "done"]
    ELSE /\ pc' = [pc EXCEPT ![r] = "unanswered"]
         /\ UNCHANGED resp

\* Lines 97-98, 113-114: the awaited call rejected with e.  The catch block
\* pushes the error entry with e.message; on null or undefined, reading
\* e.message throws inside the catch block and the handler rejects.
Caught(r, e) ==
    IF e = NullRejection
    THEN /\ HandlerRejects(r)
         /\ inflight' = [inflight EXCEPT ![r] = @ \ {idx[r]}]
         /\ UNCHANGED <<config, disk, provider, files, idx, links, attempts, opened, unlinked, outcomes>>
    ELSE Settle(r, ErrorEntry(File(r).originalname, e), Threw(e))

----------------------------------------------------------------------------
\* Line 76, upload.array('files'): multer writes every file part under uploads/
\* with a fresh stored name and fills req.body and req.files.
Multer(r) ==
    /\ pc[r] = "new"
    /\ \E p \in Providers, n \in 0..MaxFiles :
            /\ provider' = [provider EXCEPT ![r] = p]
            /\ files' = [files EXCEPT ![r] =
                    [i \in 1..n |-> [originalname |-> OriginalName(i), filename |-> StoredName(r, i)]]]
            /\ attempts' = [attempts EXCEPT ![r] = [i \in 1..n |-> 0]]
            /\ disk' = disk \cup { StoredName(r, i) : i \in 1..n }
    /\ pc' = [pc EXCEPT ![r] = "handler"]
    /\ UNCHANGED <<config, idx, links, resp, inflight, opened, unlinked, outcomes>>

\* Lines 77-86.
HandleLocal(r) ==
    /\ pc[r] = "handler"
    /\ Branch(provider[r]) = "local"
    /\ links' = [links EXCEPT ![r] = [i \in 1..Len(files[r]) |-> LocalEntry(files[r][i])]]
    /\ Send(r, [status |-> 200, message |-> "Uploaded to temporary storage.", links |-> JsonLinks(links'[r])])
    /\ pc' = [pc EXCEPT ![r] = "done"]
    /\ UNCHANGED <<config, disk, provider, files, idx, inflight, attempts, opened, unlinked, outcomes>>

\* Lines 88 and 104.
HandleNotConfigured(r) ==
    /\ pc[r] = "handler"
    /\ Branch(provider[r]) \in {"dropbox", "terabox"}
    /\ ~Configured(Branch(provider[r]))
    /\ Send(r, [status |-> 500, message |-> NotConfiguredMessage(Branch(provider[r]))])
    /\ pc' = [pc EXCEPT ![r] = "done"]
    /\ UNCHANGED <<config, disk, provider, files, idx, links, inflight, attempts, opened, unlinked, outcomes>>

\* Lines 134-136.
HandleUnknown(r) ==
    /\ pc[r] = "handler"
    /\ Branch(provider[r]) = "unknown"
    /\ Send(r, [status |-> 400, message |-> "Unknown provider."])
    /\ pc' = [pc EXCEPT ![r] = "done"]
    /\ UNCHANGED <<config, disk, provider, files, idx, links, inflight, attempts, opened, unlinked, outcomes>>

\* Lines 87-89, 103-105, 119-120: the backend is there, the for-loop is entered.
EnterLoop(r) ==
    /\ pc[r] = "handler"
    /\ Branch(provider[r]) \in {"dropbox", "terabox", "medianz"}
    /\ Configured(Branch(provider[r]))
    /\ pc' = [pc EXCEPT ![r] = "loop"]
    /\ UNCHANGED <<config, disk, provider, files, idx, links, resp, inflight, attempts, opened, unlinked, outcomes>>

\* A staged file disappears behind the handler's back (it is removed or moved
\* by something other than this handler) while the loop is on it.
Vanish(r) ==
    /\ pc[r] \in {"loop", "filesUpload", "sharedLink", "uploadFile", "uploadToMediaNz", "unlink"}
    /\ idx[r] <= Len(files[r])
    /\ File(r).filename \in disk
    /\ disk' = disk \ {File(r).filename}
    /\ UNCHANGED <<config, provider, files, pc, idx, links, resp, inflight, attempts, opened,
                   unlinked, outcomes>>

\* Lines 90-92: the try block of a Dropbox file is entered and the staged file is
\* read; filesUpload is called and awaited.
DropboxRead(r) ==
    /\ pc[r] = "loop" /\ idx[r] <= Len(files[r])
    /\ Branch(provider[r]) = "dropbox"
    /\ File(r).filename \in disk
    /\ attempts' = [attempts EXCEPT ![r][idx[r]] = @ + 1]
    /\ opened' = [opened EXCEPT ![r] = @ \cup {File(r).filename}]
    /\ inflight' = [inflight EXCEPT ![r] = @ \cup {idx[r]}]
    /\ pc' = [pc EXCEPT ![r] = "filesUpload"]
    /\ UNCHANGED <<config, disk, provider, files, idx, links, resp, unlinked, outcomes>>

\* Lines 90-91, 97-98: the try block of a Dropbox file is entered and readFileSync
\* throws because the staged file is not there.
DropboxReadThrows(r) ==
    /\ pc[r] = "loop" /\ idx[r] <= Len(files[r])
    /\ Branch(provider[r]) = "dropbox"
    /\ File(r).filename \notin disk
    /\ attempts' = [attempts EXCEPT ![r][idx[r]] = @ + 1]
    /\ opened' = [opened EXCEPT ![r] = @ \cup {File(r).filename}]
    /\ Push(r, ErrorEntry(File(r).originalname, EnoentMessage), Threw(EnoentMessage))
    /\ pc' = [pc EXCEPT ![r] = "unlink"]
    /\ UNCHANGED inflight
    /\ UNCHANGED <<config, disk, provider, files, idx, resp, unlinked>>

\* Line 92 settles: on success line 93 calls sharingCreateSharedLinkWithSettings.
FilesUploadResolves(r) ==
    /\ pc[r] = "filesUpload"
    /\ pc' = [pc EXCEPT ![r] = "sharedLink"]
    /\ UNCHANGED <<config, disk, provider, files, idx, links, resp, inflight, attempts, opened, unlinked, outcomes>>

\* Line 92 rejects; lines 97-98.
FilesUploadRejects(r) ==
    /\ pc[r] = "filesUpload"
    /\ \E e \in Rejections : Caught(r, e)

\* Line 93 resolves; lines 94-96 (or 97-98 when the result carries no url).
SharedLinkResolves(r) ==
    /\ pc[r] = "sharedLink"
    /\ \E url \in DropboxUrls :
         Settle(r, DropboxEntry(File(r).originalname, url), Resolved(TRUE, url, NoMessage))

\* Line 93 rejects; lines 97-98.
SharedLinkRejects(r) ==
    /\ pc[r] = "sharedLink"
    /\ \E e \in Rejections : Caught(r, e)

\* Lines 106-107: the try block of a TeraBox file is entered, uploadFile is called.
TeraboxUpload(r) ==
    /\ pc[r] = "loop" /\ idx[r] <= Len(files[r])
    /\ Branch(provider[r]) = "terabox"
    /\ attempts' = [attempts EXCEPT ![r][idx[r]] = @ + 1]
    /\ opened' = [opened EXCEPT ![r] = @ \cup {File(r).filename}]
    /\ inflight' = [inflight EXCEPT ![r] = @ \cup {idx[r]}]
    /\ pc' = [pc EXCEPT ![r] = "uploadFile"]
    /\ UNCHANGED <<config, disk, provider, files, idx, links, resp, unlinked, outcomes>>

\* Line 107 resolves; lines 108-112.
TeraboxResolves(r) ==
    /\ pc[r] = "uploadFile"
    /\ \E result \in TeraboxResults :
         Settle(r, TeraboxEntry(File(r).originalname, result),
                Resolved(result.success,
                         IF result.fileDetails THEN result.downloadLink ELSE UndefinedUrl,
                         result.message))

\* Line 107 rejects; lines 113-114.
TeraboxRejects(r) ==
    /\ pc[r] = "uploadFile"
    /\ \E e \in Rejections : Caught(r, e)

\* Lines 121-122: the try block of a media.nz file is entered, the stub is called.
MediaNzUpload(r) ==
    /\ pc[r] = "loop" /\ idx[r] <= Len(files[r])
    /\ Branch(provider[r]) = "medianz"
    /\ attempts' = [attempts EXCEPT ![r][idx[r]] = @ + 1]
    /\ opened' = [opened EXCEPT ![r] = @ \cup {File(r).filename}]
    /\ inflight' = [inflight EXCEPT ![r] = @ \cup {idx[r]}]
    /\ pc' = [pc EXCEPT ![r] = "uploadToMediaNz"]
    /\ UNCHANGED <<config, disk, provider, files, idx, links, resp, unlinked, outcomes>>

\* Line 122 resolves (the stub of lines 63-65 never rejects); lines 123-127.
MediaNzResolves(r) ==
    /\ pc[r] = "uploadToMediaNz"
    /\ Settle(r, MediaNzEntry(File(r).originalname, uploadToMediaNz),
              Resolved(uploadToMediaNz.success, uploadToMediaNz.url, uploadToMediaNz.message))

\* Lines 100, 116, 131: fs.unlinkSync removes the staged file; the loop goes on.
UnlinkReturns(r) ==
    /\ pc[r] = "unlink"
    /\ File(r).filename \in disk
    /\ disk' = disk \ {File(r).filename}
    /\ unlinked' = [unlinked EXCEPT ![r] = @ \cup {File(r).filename}]
    /\ idx' = [idx EXCEPT ![r] = @ + 1]
    /\ pc' = [pc EXCEPT ![r] = "loop"]
    /\ UNCHANGED <<config, provider, files, links, resp, inflight, attempts, opened, outcomes>>

\* Lines 100, 116, 131: fs.unlinkSync throws ENOENT, the staged file not being
\* there.  The call is outside the try block, so the handler rejects.
UnlinkThrows(r) ==
    /\ pc[r] = "unlink"
    /\ File(r).filename \notin disk
    /\ HandlerRejects(r)
    /\ UNCHANGED <<config, disk, provider, files, idx, links, inflight, attempts, opened, unlinked, outcomes>>

\* Lines 102, 118, 133: the loop is over, the handler answers.
Respond(r) ==
    /\ pc[r] = "loop" /\ idx[r] > Len(files[r])
    /\ Send(r, [status |-> 200, message |-> DoneMessage(Branch(provider[r])), links |-> JsonLinks(links[r])])
    /\ pc' = [pc EXCEPT ![r] = "done"]
    /\ UNCHANGED <<config, disk, provider, files, idx, links, inflight, attempts, opened, unlinked, outcomes>>

Next ==
    \E r \in Reqs :
        \/ Multer(r)
        \/ HandleLocal(r)
        \/ HandleNotConfigured(r)
        \/ HandleUnknown(r)
        \/ EnterLoop(r)
        \/ Vanish(r)
        \/ DropboxRead(r)
        \/ DropboxReadThrows(r)
        \/ FilesUploadResolves(r)
        \/ FilesUploadRejects(r)
        \/ SharedLinkResolves(r)
        \/ SharedLinkRejects(r)
        \/ TeraboxUpload(r)
        \/ TeraboxResolves(r)
        \/ TeraboxRejects(r)
        \/ MediaNzUpload(r)
        \/ MediaNzResolves(r)
        \/ UnlinkReturns(r)
        \/ UnlinkThrows(r)
        \/ Respond(r)

\* One request at a time.
Spec == Init /\ [][Next]_vars

\* Two requests whose handlers interleave.
SpecConcurrent == InitConcurrent /\ [][Next]_vars

----------------------------------------------------------------------------
\* Vocabulary of the properties.

Known == {"local", "dropbox", "terabox", "medianz"}
RemoteProviders == {"dropbox", "terabox", "medianz"}

\* The handler of r has been entered / has ended (answered or not).
Entered(r) == pc[r] \notin {"new", "absent"}
Dispatched(r) == pc[r] \notin {"new", "absent", "handler"}
Ended(r) == pc[r] \in {"done", "unanswered"}

BackendAvailable(r) ==
    /\ provider[r] \in RemoteProviders
    /\ provider[r] = "dropbox" => dbx
    /\ provider[r] = "terabox" => teraboxUploader

\* The handler has touched no file and called no adapter.
Untouched(r) ==
    /\ opened[r] = {}
    /\ unlinked[r] = {}
    /\ inflight[r] = {}
    /\ links[r] = <<>>
    /\ \A i \in 1..Len(files[r]) : attempts[r][i] = 0 /\ files[r][i].filename \in disk

\* The links list of body b has one entry per file of r, in order, by name.
LinksFollowFiles(r, b) ==
    /\ "links" \in DOMAIN b
    /\ Len(b.links) = Len(files[r])
    /\ \A i \in 1..Len(files[r]) : b.links[i].name = files[r][i].originalname

----------------------------------------------------------------------------
\* C1: a request to local, or to a remote provider whose backend is
\* available, is answered with a links list that has exactly one entry per
\* input file, in input order, entry i named after input file i.
C1_LinksFollowFiles ==
    \A r \in Reqs :
        (Ended(r) /\ (provider[r] = "local" \/ BackendAvailable(r)))
            => /\ resp[r] # <<>>
               /\ LinksFollowFiles(r, resp[r][1])

\* C2: once a request to an available remote backend has ended, none of its
\* staged files is left on disk; and while it runs, every file whose attempt
\* is over and behind the loop is off the disk.
C2_StagedFilesDeleted ==
    \A r \in Reqs :
        BackendAvailable(r) =>
            /\ Ended(r) => StagedFiles(r) \cap disk = {}
            /\ \A i \in 1..Len(files[r]) : i < idx[r] => files[r][i].filename \notin disk

\* C3: for an available remote backend no file is attempted twice, and when
\* the request has ended every file of the batch has been attempted once.
C3_EveryFileAttemptedOnce ==
    \A r \in Reqs :
        BackendAvailable(r) =>
            /\ \A i \in 1..Len(files[r]) : attempts[r][i] <= 1
            /\ Ended(r) => \A i \in 1..Len(files[r]) : attempts[r][i] = 1

\* C4: dropbox without a client, or terabox without an uploader, touches no
\* file, calls no adapter, and ends with the single response 500
\* "Dropbox not configured." / "TeraBox not configured.", which has no links.
C4_NotConfiguredShortCircuit ==
    \A r \in Reqs :
        /\ (Entered(r) /\ provider[r] = "dropbox" /\ ~dbx) =>
               /\ Untouched(r)
               /\ Dispatched(r) =>
                     /\ pc[r] = "done"
                     /\ resp[r] = << [status |-> 500, message |-> "Dropbox not configured."] >>
        /\ (Entered(r) /\ provider[r] = "terabox" /\ ~teraboxUploader) =>
               /\ Untouched(r)
               /\ Dispatched(r) =>
                     /\ pc[r] = "done"
                     /\ resp[r] = << [status |-> 500, message |-> "TeraBox not configured."] >>

C4_Witness ==
    \E r \in Reqs :
        /\ provider[r] = "dropbox" /\ ~dbx /\ teraboxUploader
        /\ Len(files[r]) = 2
        /\ pc[r] = "done"
        /\ resp[r][1].status = 500

\* C5: a provider outside local, dropbox, terabox, medianz (a missing one
\* too) touches no file, calls no adapter, and ends with the single response
\* 400 "Unknown provider.", which has no links.
C5_UnknownProviderRejected ==
    \A r \in Reqs :
        (Entered(r) /\ provider[r] \notin Known) =>
            /\ Untouched(r)
            /\ Dispatched(r) =>
                  /\ pc[r] = "done"
                  /\ resp[r] = << [status |-> 400, message |-> "Unknown provider."] >>

C5_Witness ==
    \E r \in Reqs :
        /\ provider[r] = "LOCAL"
        /\ Len(files[r]) = 2
        /\ pc[r] = "done"
        /\ resp[r][1].status = 400

\* C6: the entry of each file a remote provider has processed follows from
\* how its try block ended: resolved with success and a usable url gives
\* name and a non-empty url and no error field; resolved otherwise gives
\* url "" and the adapter's message or "Upload failed"; thrown gives url ""
\* and the exception's message.  So an entry has a non-empty url exactly when
\* it has no error field, in the links array and in every response.
EntryFollowsOutcome(name, e, o) ==
    IF o.kind = "resolved" /\ o.success /\ o.url # UndefinedUrl /\ o.url # <<>>
    THEN /\ DOMAIN e = {"name", "url"}
         /\ e.name = name
         /\ e.url # <<>>
    ELSE IF o.kind = "resolved"
    THEN e = [name |-> name, url |-> <<>>,
              error |-> IF o.message \in {NoMessage, ""} THEN "Upload failed" ELSE o.message]
    ELSE e = [name |-> name, url |-> <<>>, error |-> o.message]

UrlIffNoError(e) == ("url" \in DOMAIN e /\ e.url # <<>>) <=> ("error" \notin DOMAIN e)

C6_EntryByOutcome ==
    \A r \in Reqs :
        /\ provider[r] \in RemoteProviders =>
              /\ Len(outcomes[r]) = Len(links[r])
              /\ \A i \in 1..Len(links[r]) :
                    EntryFollowsOutcome(files[r][i].originalname, links[r][i], outcomes[r][i])
        /\ \A k \in 1..Len(resp[r]) :
              "links" \in DOMAIN resp[r][k] =>
                  \A i \in 1..Len(resp[r][k].links) : UrlIffNoError(resp[r][k].links[i])

\* C7: a request never has two responses, and once its handler has ended it
\* has exactly one.
C7_ExactlyOneResponse ==
    \A r \in Reqs :
        /\ Len(resp[r]) <= 1
        /\ Ended(r) => Len(resp[r]) = 1

\* C8: provider local answers 200 with one entry per file, entry i being the
\* original name of file i and "/uploads/" followed by its stored name, with
\* no error field; it deletes nothing, and every stored file is on disk.
C8_LocalKeepsFiles ==
    \A r \in Reqs :
        (Entered(r) /\ provider[r] = "local") =>
            /\ unlinked[r] = {}
            /\ StagedFiles(r) \subseteq disk
            /\ Dispatched(r) =>
                  /\ pc[r] = "done"
                  /\ Len(resp[r]) = 1
                  /\ resp[r][1].status = 200
                  /\ DOMAIN resp[r][1] = {"status", "message", "links"}
                  /\ Len(resp[r][1].links) = Len(files[r])
                  /\ \A i \in 1..Len(files[r]) :
                        resp[r][1].links[i] =
                            [name |-> files[r][i].originalname,
                             url |-> <<"/uploads/", files[r][i].filename>>]

C8_Witness ==
    \E r \in Reqs :
        /\ provider[r] = "local"
        /\ Len(files[r]) = 2
        /\ pc[r] = "done"
        /\ Len(resp[r][1].links) = 2
        /\ Cardinality(StagedFiles(r) \cap disk) = 2

\* C9: for an available remote backend at most one adapter call is pending;
\* a file's attempt has begun only if every earlier file's call has settled,
\* its entry is in the links array and its staged file is off the disk; and a
\* response is there only if every staged file is off the disk.
C9_OneAtATimeInOrder ==
    \A r \in Reqs :
        BackendAvailable(r) =>
            /\ Cardinality(inflight[r]) <= 1
            /\ \A i \in 1..Len(files[r]) :
                  attempts[r][i] > 0 =>
                      \A j \in 1..(i-1) :
                          /\ attempts[r][j] > 0
                          /\ j \notin inflight[r]
                          /\ Len(links[r]) >= j
                          /\ files[r][j].filename \notin disk
            /\ resp[r] # <<>> => StagedFiles(r) \cap disk = {}

\* C10: with two requests interleaving, a request that ends while the other
\* is still running has a response whose links follow its own files; and a
\* request unlinks none but its own staged files.
C10_RequestsIsolated ==
    \A r \in Reqs : \A o \in Reqs \ {r} :
        /\ unlinked[r] \subseteq StagedFiles(r)
        /\ unlinked[r] \cap StagedFiles(o) = {}
        /\ (Ended(r) /\ Dispatched(o) /\ ~Ended(o)
                /\ (provider[r] = "local" \/ BackendAvailable(r)))
              => /\ resp[r] # <<>>
                 /\ LinksFollowFiles(r, resp[r][1])

====
